---- MODULE Spec2Model ----
(***************************************************************************)
(* Orchestration layer of the LaCT decoder-only language model             *)
(* (custom_models/lact_model/modeling_lact.py): LaCTBlock, LaCTModel (the  *)
(* Stack) and LaCTForCausalLM (the CausalLMHead).                          *)
(*                                                                         *)
(* Tensors are modelled for batch size 1 as a sequence of per-position     *)
(* integer values together with their numeric format.  Optional Python     *)
(* values are sequences of length 0 (None) or 1 (the value).  Calls are    *)
(* made with return_dict=True, so every completed call produces a record.  *)
(* A call is one action: it computes the whole handler and leaves its      *)
(* arguments and its result in `call` and `out` until the caller takes     *)
(* them.  Spec exercises the Stack, SpecLM the head's loss strategies,     *)
(* SpecGen the generation-step preparation.                                *)
(***************************************************************************)
EXTENDS Integers, Sequences, FiniteSets, TLC

VARIABLES
    config,                  \* LaCTSWIGLUConfig of the model, fixed at construction
    kernel,                  \* numeric formats the installed norm / mixer / MLP kernels return
    training,                \* nn.Module.training
    gradient_checkpointing,  \* LaCTModel.gradient_checkpointing
    criterion,               \* LaCTForCausalLM.criterion
    pc,                      \* "idle": no call in flight; "done": a call has returned or raised
    call,                    \* the operation and the arguments of the last call
    out                      \* what that call produced

vars == <<config, kernel, training, gradient_checkpointing, criterion, pc, call, out>>

---------------------------------------------------------------------------
(* Bounds of the model *)

\* config.num_hidden_layers: the depth of the Stack
NumHiddenLayers == 2

\* longest input sequence a call is made with
MaxLen == 2

\* config.vocab_size: token ids and labels range over 0 .. VocabSize-1
VocabSize == 2

---------------------------------------------------------------------------
(* Python values *)

None == <<>>
Some(x) == <<x>>
IsNone(o) == o = <<>>
Get(o) == o[1]

OptBool == {None, Some(TRUE), Some(FALSE)}

\* truth value of an Optional[bool] in an `if`
Truthy(o) == o = Some(TRUE)

\* `x if x is not None else d`
OrDefault(o, d) == IF IsNone(o) THEN d ELSE Get(o)

\* the value of Body at the value of e, with e evaluated once
Bind(e, Body(_)) == CHOOSE r \in {Body(v) : v \in {e}} : TRUE

\* s[1] + .. + s[n]
SumTo(s, n) ==
    LET ps[k \in 0..Len(s)] == IF k = 0 THEN 0 ELSE ps[k - 1] + s[k]
    IN  ps[n]

---------------------------------------------------------------------------
(* Numeric formats.  A bfloat16 tensor holds only the values bfloat16 can  *)
(* represent (here: the even integers); a cast to bfloat16 rounds.         *)

BF16 == "bfloat16"
FP32 == "float32"
Formats == {BF16, FP32}

RoundBF16(v) == 2 * (v \div 2)

Tensor(vals, fmt) ==
    [vals |-> IF fmt = BF16 THEN [i \in 1..Len(vals) |-> RoundBF16(vals[i])] ELSE vals,
     fmt |-> fmt]

\* faulty variant of To: the cast is left out
ToKeep(t, fmt) == t

\* tensor.to(dtype)
To(t, fmt) == IF t.fmt = fmt THEN t ELSE Tensor(t.vals, fmt)

\* torch type promotion of a binary elementwise operation
Promote(f, g) == IF f = g THEN f ELSE FP32

\* a + b
Add(a, b) == Tensor([i \in 1..Len(a.vals) |-> a.vals[i] + b.vals[i]], Promote(a.fmt, b.fmt))

---------------------------------------------------------------------------
(* Collaborators of the Block *)

\* self.attn_norm(x) / self.mlp_norm(x) / self.norm(x)
RMSNorm(self, x) ==
    Tensor([i \in 1..Len(x.vals) |-> x.vals[i] + 1], self.kernel.norm)

\* self.mlp_norm(hidden_states, residual, True): fused add + norm, prenorm
FusedAddNorm(self, x, residual) ==
    LET s == [i \in 1..Len(x.vals) |-> x.vals[i] + residual.vals[i]]
    IN  [hidden_states |-> Tensor([i \in 1..Len(s) |-> s[i] + 1], self.kernel.norm),
         residual      |-> Tensor(s, self.kernel.norm)]

\* self.mlp(x)
MLP(self, x) ==
    Tensor([i \in 1..Len(x.vals) |-> 3 * x.vals[i] + 1], self.kernel.inner)

\* Cache.from_legacy_cache(past_key_values): a Cache holding the states given
FromLegacyCache(past_key_values) ==
    [cls |-> "Cache",
     states |-> IF IsNone(past_key_values) THEN <<>> ELSE Get(past_key_values).states]

\* len(cache)
CacheLen(cache) == Len(cache.states)

\* tokens the state of layer layer_idx has seen
CacheSeen(cache, layer_idx) ==
    IF CacheLen(cache) <= layer_idx THEN 0 ELSE cache.states[layer_idx + 1].seen

\* Cache.update(..., layer_idx, offset): the layer's state is appended when
\* the cache has none for it, and updated in place otherwise
CacheUpdate(cache, layer_idx, offset) ==
    IF CacheLen(cache) <= layer_idx
    THEN [cache EXCEPT !.states = Append(@, [layer_idx |-> layer_idx, seen |-> offset])]
    ELSE [cache EXCEPT !.states[layer_idx + 1].seen = @ + offset]

\* self.attn(hidden_states, attention_mask, past_key_values, use_cache,
\* output_attentions): the SequenceMixer.  Causal: position i mixes
\* positions 1..i and what the layer's decode state has seen.
Mixer(self, layer_idx, x, past_key_values, use_cache, output_attentions) ==
    LET before == IF IsNone(past_key_values) THEN 0
                  ELSE CacheSeen(Get(past_key_values), layer_idx)
    IN  [hidden_states |->
            Tensor([i \in 1..Len(x.vals) |-> SumTo(x.vals, i) + before + layer_idx + 1],
                   self.kernel.inner),
         attentions |-> None,
         past_key_values |->
            IF IsNone(past_key_values) THEN None
            ELSE Some(CacheUpdate(Get(past_key_values), layer_idx, Len(x.vals)))]

---------------------------------------------------------------------------
(* LaCTBlock.forward *)

BlockForward(self, layer_idx, hidden_states, past_key_values, output_attentions, use_cache) ==
    LET x        == To(hidden_states, BF16)
        residual == x
        normed   == RMSNorm(self, x)
        mixed    == Mixer(self, layer_idx, normed, past_key_values, use_cache, output_attentions)
        fused    == FusedAddNorm(self, mixed.hidden_states, residual)
        summed   == Add(residual, mixed.hidden_states)
        h2       == IF self.config.fuse_norm THEN fused.hidden_states ELSE RMSNorm(self, summed)
        r2       == IF self.config.fuse_norm THEN fused.residual ELSE summed
        ff       == MLP(self, h2)
        pre      == Add(r2, ff)
        y        == To(pre, BF16)
    IN  [outputs |-> <<y>>
                     \o (IF output_attentions THEN <<mixed.attentions>> ELSE <<>>)
                     \o (IF use_cache THEN <<mixed.past_key_values>> ELSE <<>>),
         \* the Cache object the layer was given, as the layer leaves it
         cache |-> mixed.past_key_values,
         log |-> [use_cache |-> use_cache,
                  output_attentions |-> output_attentions,
                  norm_in |-> x.fmt,
                  exit |-> y.fmt]]

\* self._gradient_checkpointing_func(layer.__call__, ...): the same call,
\* made through the recompute wrapper
CheckpointedBlockForward(self, layer_idx, hidden_states, past_key_values, output_attentions, use_cache) ==
    BlockForward(self, layer_idx, hidden_states, past_key_values, output_attentions, use_cache)

---------------------------------------------------------------------------
(* LaCTModel.forward *)

\* self.embeddings(input_ids): the table is held in bfloat16
EmbeddingTable(tok) == 2 * tok + 2
Embeddings(input_ids) ==
    Tensor([i \in 1..Len(input_ids) |-> EmbeddingTable(input_ids[i])], BF16)

\* lines 241-246
ResolveOutputAttentions(self, output_attentions) ==
    LET oa == IF Truthy(output_attentions) THEN Some(FALSE) ELSE output_attentions
    IN  OrDefault(oa, self.config.output_attentions)

\* line 248
ResolveUseCache(self, use_cache) ==
    OrDefault(use_cache, IF ~self.training THEN self.config.use_cache ELSE FALSE)

\* faulty variant of InputError: the both-supplied test is left out
InputErrorOnlyNeither(input_ids, inputs_embeds) ==
    IF IsNone(input_ids) /\ IsNone(inputs_embeds) THEN "ValueError" ELSE ""

\* lines 252-255: "" when the call may proceed
InputError(input_ids, inputs_embeds) ==
    IF ~IsNone(input_ids) /\ ~IsNone(inputs_embeds) THEN "ValueError"
    ELSE IF IsNone(input_ids) /\ IsNone(inputs_embeds) THEN "ValueError"
    ELSE ""

\* lines 257-258
ConvertCache(use_cache, past_key_values) ==
    IF use_cache /\ (IsNone(past_key_values) \/ Get(past_key_values).cls # "Cache")
    THEN Some(FromLegacyCache(past_key_values))
    ELSE past_key_values

\* faulty variant of CheckpointUseCache: use_cache is kept under recompute
CheckpointUseCacheKept(self, use_cache) == use_cache

\* lines 266-271: use_cache as the layers see it
CheckpointUseCache(self, use_cache) ==
    IF self.gradient_checkpointing /\ self.training
    THEN (IF use_cache THEN FALSE ELSE use_cache)
    ELSE use_cache

\* lines 278-308: one turn of the loop; st is the loop's state
LayerStep(self, layer_idx, st, output_attentions, use_cache) ==
    LET wrapped == self.gradient_checkpointing /\ self.training
        Call == IF wrapped
                THEN CheckpointedBlockForward(self, layer_idx, st.hidden_states,
                          st.past_key_values, output_attentions, use_cache)
                ELSE BlockForward(self, layer_idx, st.hidden_states,
                          st.past_key_values, output_attentions, use_cache)
        Rest(layer_outputs) ==
            LET hs == To(layer_outputs.outputs[1], BF16)
            IN  [hidden_states |-> hs,
                 \* the Cache object is updated in place by the layer
                 past_key_values |-> layer_outputs.cache,
                 all_hidden_states |->
                     IF IsNone(st.all_hidden_states) THEN None
                     ELSE Some(Append(Get(st.all_hidden_states), st.hidden_states)),
                 all_attns |-> IF output_attentions
                               THEN Some(Append(Get(st.all_attns), layer_outputs.outputs[2]))
                               ELSE st.all_attns,
                 next_cache |-> IF use_cache
                                THEN layer_outputs.outputs[IF output_attentions THEN 3 ELSE 2]
                                ELSE st.next_cache,
                 blocks |-> Append(st.blocks, [layer_idx |-> layer_idx,
                                               wrapped |-> wrapped,
                                               use_cache |-> layer_outputs.log.use_cache,
                                               output_attentions |-> layer_outputs.log.output_attentions,
                                               norm_in |-> layer_outputs.log.norm_in,
                                               exit |-> layer_outputs.log.exit]),
                 after_block |-> Append(st.after_block, hs.fmt)]
    IN  Bind(Call, Rest)

\* line 277: `for layer in self.layers`, from layer k on
RECURSIVE LayerLoop(_, _, _, _, _)
LayerLoop(self, k, st0, output_attentions, use_cache) ==
    IF k >= NumHiddenLayers THEN st0
    ELSE LET Go(st) == LayerLoop(self, k + 1, st, output_attentions, use_cache)
         IN  Bind(LayerStep(self, k, st0, output_attentions, use_cache), Go)

NoRecord == None

StackForward(self, a) ==
    LET output_attentions == ResolveOutputAttentions(self, a.output_attentions)
        output_hidden_states == OrDefault(a.output_hidden_states, self.config.output_hidden_states)
        use_cache0 == ResolveUseCache(self, a.use_cache)
        err == InputError(a.input_ids, a.inputs_embeds)
        past_key_values == ConvertCache(use_cache0, a.past_key_values)
        lookup == IsNone(a.inputs_embeds)
        inputs_embeds == IF lookup THEN Embeddings(Get(a.input_ids)) ELSE Get(a.inputs_embeds)
        use_cache == CheckpointUseCache(self, use_cache0)
        warnings == (IF Truthy(a.output_attentions) THEN {"output_attentions"} ELSE {})
        st0 == [hidden_states |-> To(inputs_embeds, BF16),
                past_key_values |-> past_key_values,
                all_hidden_states |-> IF output_hidden_states THEN Some(<<>>) ELSE None,
                all_attns |-> IF output_attentions THEN Some(<<>>) ELSE None,
                next_cache |-> None,
                blocks |-> <<>>,
                after_block |-> <<>>]
        Finish(st) ==
            LET final == To(RMSNorm(self, st.hidden_states), BF16)
            IN  [status |-> "ok",
                 warnings |-> warnings \cup
                     (IF self.gradient_checkpointing /\ self.training /\ use_cache0
                      THEN {"use_cache"} ELSE {}),
                 embedding_lookups |-> IF lookup THEN 1 ELSE 0,
                 use_cache |-> use_cache,
                 blocks |-> st.blocks,
                 after_block |-> st.after_block,
                 record |-> Some([last_hidden_state |-> final,
                                  past_key_values |-> st.next_cache,
                                  hidden_states |->
                                      IF IsNone(st.all_hidden_states) THEN None
                                      ELSE Some(Append(Get(st.all_hidden_states), final)),
                                  attentions |-> st.all_attns])]
    IN  IF err # ""
        THEN [status |-> err, warnings |-> warnings, embedding_lookups |-> 0,
              use_cache |-> use_cache0, blocks |-> <<>>, after_block |-> <<>>,
              record |-> NoRecord]
        ELSE Bind(LayerLoop(self, 0, st0, output_attentions, use_cache), Finish)

---------------------------------------------------------------------------
(* LaCTForCausalLM.forward *)

\* faulty variant of PySliceFrom: s[:-start], the leading positions
PySliceFromHead(s, start) == SubSeq(s, 1, IF start < 0 THEN -start ELSE Len(s))

\* s[start:] of a Python sequence
PySliceFrom(s, start) ==
    LET n == Len(s)
        from == IF start < 0 THEN (IF n + start < 0 THEN 0 ELSE n + start)
                ELSE (IF start > n THEN n ELSE start)
    IN  SubSeq(s, from + 1, n)

\* s[:stop] of a Python sequence
PySliceTo(s, stop) ==
    LET n == Len(s)
        to == IF stop < 0 THEN (IF n + stop < 0 THEN 0 ELSE n + stop)
              ELSE (IF stop > n THEN n ELSE stop)
    IN  SubSeq(s, 1, to)

\* faulty variant of HeadUseCache: the caller's use_cache is passed on
HeadUseCachePassed(use_cache) == use_cache

\* line 410: `use_cache = False`
HeadUseCache(use_cache) == Some(FALSE)

\* self.lm_head(x): one row of VocabSize logits per position, here the
\* row's index
LmHeadRow(v) == 5 * v + 3
LmHead(x) ==
    [vals |-> [j \in 1..Len(x.vals) |-> LmHeadRow(x.vals[j])],
     fmt |-> x.fmt,
     width |-> VocabSize]

\* line 430
FuseLinearAndCrossEntropy(self) == self.config.fuse_cross_entropy /\ self.training

\* faulty variants of Logits: lm_head applied in every mode; the leading
\* instead of the trailing positions kept
LogitsAlways(self, hidden_states, logits_to_keep) ==
    Some(LmHead([hidden_states EXCEPT !.vals = PySliceFrom(@, -logits_to_keep)]))
LogitsHead(self, hidden_states, logits_to_keep) ==
    IF FuseLinearAndCrossEntropy(self) THEN None
    ELSE Some(LmHead([hidden_states EXCEPT !.vals = PySliceFromHead(@, -logits_to_keep)]))

\* line 431
Logits(self, hidden_states, logits_to_keep) ==
    IF FuseLinearAndCrossEntropy(self) THEN None
    ELSE Some(LmHead([hidden_states EXCEPT !.vals = PySliceFrom(@, -logits_to_keep)]))

\* the three loss criteria; ignore_index is -100 unless the criterion was
\* built otherwise
IgnoreIndex == -100
FusedLinearCrossEntropyLoss == "FusedLinearCrossEntropyLoss"
FusedCrossEntropyLoss == "FusedCrossEntropyLoss"
CrossEntropyLoss == "CrossEntropyLoss"
CriterionKinds == {FusedLinearCrossEntropyLoss, FusedCrossEntropyLoss, CrossEntropyLoss}
NewCriterion(kind) == [kind |-> kind, ignore_index |-> IgnoreIndex]

\* lines 435-443
SelectCriterion(self) ==
    IF IsNone(self.criterion)
    THEN (IF FuseLinearAndCrossEntropy(self) THEN NewCriterion(FusedLinearCrossEntropyLoss)
          ELSE IF self.config.fuse_cross_entropy THEN NewCriterion(FusedCrossEntropyLoss)
          ELSE NewCriterion(CrossEntropyLoss))
    ELSE Get(self.criterion)

\* faulty variant of ShiftLabels: the first label wraps to the end
ShiftLabelsRolled(labels, ignore_index) ==
    PySliceFrom(labels, 1) \o PySliceTo(labels, 1)

\* line 446: cat(labels[..., 1:], full_like(labels[:, :1], ignore_index))
ShiftLabels(labels, ignore_index) ==
    PySliceFrom(labels, 1) \o [i \in 1..Len(PySliceTo(labels, 1)) |-> ignore_index]

\* argument list of the criterion call, lines 447-450
LinearForm == "hidden_states, labels, weight, bias"
LogitsForm == "logits, labels"

\* the argument list criterion.forward of each kind takes
AcceptedForm(kind) == IF kind = FusedLinearCrossEntropyLoss THEN LinearForm ELSE LogitsForm

\* lines 447-450: the criterion call on the shifted labels
LossCall(self, crit, hidden_states, logits, labels) ==
    IF FuseLinearAndCrossEntropy(self)
    THEN [form |-> LinearForm, status |-> IF AcceptedForm(crit.kind) = LinearForm THEN "ok" ELSE "TypeError",
          criterion |-> crit.kind, labels |-> labels, input_fmt |-> To(hidden_states, FP32).fmt,
          rows |-> Len(hidden_states.vals), width |-> VocabSize]
    ELSE
    LET numel == Len(Get(logits).vals) * Get(logits).width
        rows == Len(labels)
        viewable == rows > 0 /\ numel % rows = 0
        width == numel \div rows
    IN  [form |-> LogitsForm,
         status |-> IF ~viewable THEN "RuntimeError"
                    ELSE IF AcceptedForm(crit.kind) # LogitsForm THEN "TypeError"
                    ELSE IF \E i \in 1..Len(labels) :
                                labels[i] # crit.ignore_index /\ (labels[i] < 0 \/ labels[i] >= width)
                         THEN "IndexError"
                    ELSE "ok",
         criterion |-> crit.kind, labels |-> labels, input_fmt |-> To(Get(logits), FP32).fmt,
         rows |-> rows, width |-> IF viewable THEN width ELSE 0]

LMForward(self, a) ==
    LET output_attentions == OrDefault(a.output_attentions, self.config.output_attentions)
        output_hidden_states == OrDefault(a.output_hidden_states, self.config.output_hidden_states)
        fuse_linear == FuseLinearAndCrossEntropy(self)
        WithOutputs(outputs) ==
            LET rec == Get(outputs.record)
                hidden_states == rec.last_hidden_state
                crit == SelectCriterion(self)
                labels == ShiftLabels(Get(a.labels), crit.ignore_index)
                Result(logits) ==
                    LET lc == LossCall(self, crit, hidden_states, logits, labels)
                        failed == ~IsNone(a.labels) /\ lc.status # "ok"
                    IN  [status |-> IF failed THEN lc.status ELSE "ok",
                         stack |-> outputs,
                         lm_head_calls |-> IF IsNone(logits) THEN 0 ELSE 1,
                         fuse_linear |-> fuse_linear,
                         \* the criterion call, when the call reached it
                         loss_call |-> IF IsNone(a.labels) \/ lc.status = "RuntimeError"
                                       THEN None ELSE Some(lc),
                         record |->
                            IF failed THEN NoRecord
                            ELSE Some([loss |-> IF IsNone(a.labels) THEN None
                                                ELSE Some([criterion |-> lc.criterion,
                                                           counted |-> Cardinality(
                                                              {i \in 1..Len(labels) :
                                                                 labels[i] # crit.ignore_index})]),
                                       logits |-> logits,
                                       past_key_values |-> rec.past_key_values,
                                       hidden_states |-> rec.hidden_states,
                                       attentions |-> rec.attentions])]
            IN  IF outputs.status # "ok"
                THEN [status |-> outputs.status, stack |-> outputs, lm_head_calls |-> 0,
                      fuse_linear |-> fuse_linear, loss_call |-> None, record |-> NoRecord]
                ELSE Bind(Logits(self, hidden_states, a.logits_to_keep), Result)
    IN  Bind(StackForward(self,
                 [input_ids |-> a.input_ids,
                  past_key_values |-> a.past_key_values,
                  inputs_embeds |-> a.inputs_embeds,
                  use_cache |-> HeadUseCache(a.use_cache),
                  output_attentions |-> Some(output_attentions),
                  output_hidden_states |-> Some(output_hidden_states)]),
             WithOutputs)

---------------------------------------------------------------------------
(* LaCTForCausalLM.prepare_inputs_for_generation *)

PrepareInputs(self, a) ==
    LET use_cache == FALSE
        trim == ~IsNone(a.past_key_values) /\ CacheLen(Get(a.past_key_values)) > 0 /\ use_cache
        input_ids == IF trim THEN Some(PySliceFrom(Get(a.input_ids), -1)) ELSE a.input_ids
        \* `inputs_embeds is not None and len(past_key_values) == 0`
        len_fails == ~IsNone(a.inputs_embeds) /\ IsNone(a.past_key_values)
        use_embeds == ~IsNone(a.inputs_embeds) /\ CacheLen(Get(a.past_key_values)) = 0
        base == IF use_embeds THEN {"inputs_embeds"} ELSE {"input_ids"}
    IN  IF trim /\ IsNone(a.input_ids) THEN [status |-> "TypeError", model_inputs |-> None]
        ELSE IF len_fails THEN [status |-> "TypeError", model_inputs |-> None]
        ELSE IF ~use_embeds /\ IsNone(input_ids)
        THEN [status |-> "AttributeError", model_inputs |-> None]
        ELSE [status |-> "ok",
              model_inputs |-> Some(
                 [keys |-> base
                           \cup (IF IsNone(a.logits_to_keep) THEN {} ELSE {"logits_to_keep"})
                           \cup {"past_key_values", "use_cache", "attention_mask"},
                  input_ids |-> IF use_embeds THEN None ELSE input_ids,
                  inputs_embeds |-> IF use_embeds THEN a.inputs_embeds ELSE None,
                  logits_to_keep |-> a.logits_to_keep,
                  past_key_values |-> None,
                  use_cache |-> use_cache])]

---------------------------------------------------------------------------
(* The model object and the inputs calls are made with *)

Self == [config |-> config, kernel |-> kernel, training |-> training,
         gradient_checkpointing |-> gradient_checkpointing, criterion |-> criterion]

Configs == [fuse_norm : BOOLEAN, fuse_cross_entropy : BOOLEAN, use_cache : BOOLEAN,
            output_attentions : BOOLEAN, output_hidden_states : {FALSE}]

Kernels == [norm : Formats, inner : Formats]

Lengths == 1..MaxLen

\* token ids 0, 1, .., wrapping at the vocabulary size
IdsOf(L) == [i \in 1..L |-> (i - 1) % VocabSize]
\* precomputed embeddings in either format
EmbedsOf(L, fmt) == Tensor([i \in 1..L |-> 2 * i + 1], fmt)

InputIds == {None} \cup {Some(IdsOf(L)) : L \in Lengths}
InputsEmbeds == {None} \cup {Some(EmbedsOf(L, f)) : L \in Lengths, f \in Formats}

\* a decode-state collection: none, a fresh Cache, the Cache an earlier
\* one-token call with use_cache returned, or that one as a legacy list
StatesAfterOneToken == [i \in 1..NumHiddenLayers |-> [layer_idx |-> i - 1, seen |-> 1]]
EmptyCache == [cls |-> "Cache", states |-> <<>>]
FullCache == [cls |-> "Cache", states |-> StatesAfterOneToken]
LegacyCache == [cls |-> "list", states |-> StatesAfterOneToken]
PastKeyValues == {None, Some(EmptyCache), Some(FullCache), Some(LegacyCache)}

LabelValues == {IgnoreIndex} \cup (0..(VocabSize - 1))
LabelsOf(L) == [1..L -> LabelValues]

\* the sequence length of a well-formed input
InputLen(input_ids, inputs_embeds) ==
    IF ~IsNone(input_ids) THEN Len(Get(input_ids)) ELSE Len(Get(inputs_embeds).vals)

\* criteria a caller may store on the model
StoredCriteria == {None} \cup {Some(NewCriterion(k)) : k \in CriterionKinds}
                  \cup {Some([kind |-> CrossEntropyLoss, ignore_index |-> -1])}

NoCall == [op |-> "none"]
NoOut == [status |-> "none"]

---------------------------------------------------------------------------
(* Actions *)

Unchanged == UNCHANGED <<config, kernel, training, gradient_checkpointing, criterion>>

\* model(input_ids=..., ...) on the LaCTModel
StackForwardCall ==
    /\ pc = "idle"
    /\ \E input_ids \in InputIds, inputs_embeds \in InputsEmbeds,
          past_key_values \in PastKeyValues, use_cache \in OptBool,
          output_attentions \in OptBool, output_hidden_states \in {None, Some(TRUE)} :
        LET a == [input_ids |-> input_ids, inputs_embeds |-> inputs_embeds,
                  past_key_values |-> past_key_values, use_cache |-> use_cache,
                  output_attentions |-> output_attentions,
                  output_hidden_states |-> output_hidden_states]
        IN  /\ call' = [op |-> "stack", args |-> a]
            /\ out' = StackForward(Self, a)
    /\ pc' = "done"
    /\ Unchanged

\* model(...) on the LaCTForCausalLM, drawing the arguments from the sets given
LMForwardOver(Pasts, UseCaches, Attns, Keeps, WithLabels) ==
    /\ pc = "idle"
    /\ \E input_ids \in InputIds, inputs_embeds \in InputsEmbeds,
          past_key_values \in Pasts, use_cache \in UseCaches,
          output_attentions \in Attns, logits_to_keep \in Keeps :
       \E labels \in {None} \cup
             (IF WithLabels /\ InputError(input_ids, inputs_embeds) = ""
              THEN {Some(l) : l \in LabelsOf(InputLen(input_ids, inputs_embeds))}
              ELSE {}) :
        LET a == [input_ids |-> input_ids, inputs_embeds |-> inputs_embeds,
                  past_key_values |-> past_key_values, use_cache |-> use_cache,
                  output_attentions |-> output_attentions,
                  output_hidden_states |-> None,
                  labels |-> labels, logits_to_keep |-> logits_to_keep]
        IN  /\ call' = [op |-> "lm", args |-> a]
            /\ out' = LMForward(Self, a)
    /\ pc' = "done"
    /\ Unchanged

\* an inference-style call: no labels, all logits
LMForwardPlain == LMForwardOver(PastKeyValues, OptBool, OptBool, {0}, FALSE)

\* a call with or without labels
LMForwardCall ==
    LMForwardOver({None, Some(FullCache)}, {None, Some(TRUE)}, {None}, 0..MaxLen, TRUE)

\* model.prepare_inputs_for_generation(...)
PrepareInputsCall ==
    /\ pc = "idle"
    /\ \E input_ids \in InputIds, inputs_embeds \in InputsEmbeds,
          past_key_values \in PastKeyValues, use_cache \in BOOLEAN,
          logits_to_keep \in {None} \cup {Some(k) : k \in 0..MaxLen} :
        LET a == [input_ids |-> input_ids, inputs_embeds |-> inputs_embeds,
                  past_key_values |-> past_key_values, use_cache |-> use_cache,
                  logits_to_keep |-> logits_to_keep]
        IN  /\ call' = [op |-> "prepare", args |-> a]
            /\ out' = PrepareInputs(Self, a)
    /\ pc' = "done"
    /\ Unchanged

\* the caller takes the result (or the exception) of the call
Consume ==
    /\ pc = "done"
    /\ pc' = "idle"
    /\ call' = NoCall
    /\ out' = NoOut
    /\ Unchanged

\* model.train() / model.eval()
SetTraining ==
    /\ pc = "idle"
    /\ training' = ~training
    /\ UNCHANGED <<config, kernel, gradient_checkpointing, criterion, pc, call, out>>

\* model.gradient_checkpointing_enable() / _disable()
SetGradientCheckpointing ==
    /\ pc = "idle"
    /\ gradient_checkpointing' = ~gradient_checkpointing
    /\ UNCHANGED <<config, kernel, training, criterion, pc, call, out>>

\* model.criterion = ...
SetCriterion ==
    /\ pc = "idle"
    /\ \E c \in StoredCriteria : c # criterion /\ criterion' = c
    /\ UNCHANGED <<config, kernel, training, gradient_checkpointing, pc, call, out>>

---------------------------------------------------------------------------
(* Specifications *)

\* the state after construction: nn.Module starts in training mode,
\* gradient_checkpointing = False (line 216), criterion = None (line 337)
Constructed ==
    /\ config \in Configs
    /\ kernel \in Kernels
    /\ training = TRUE
    /\ gradient_checkpointing = FALSE
    /\ criterion = None
    /\ pc = "idle"
    /\ call = NoCall
    /\ out = NoOut

\* The Stack under every policy and every kernel format
Init == Constructed /\ ~config.fuse_cross_entropy
Next ==
    \/ StackForwardCall
    \/ LMForwardPlain
    \/ Consume
    \/ SetTraining
    \/ SetGradientCheckpointing
Spec == Init /\ [][Next]_vars

\* The CausalLMHead and its loss strategies, on float32 kernels
InitLM ==
    /\ Constructed
    /\ config.fuse_norm /\ config.use_cache /\ ~config.output_attentions
    /\ kernel = [norm |-> FP32, inner |-> FP32]
NextLM ==
    \/ LMForwardCall
    \/ Consume
    \/ SetTraining
    \/ SetCriterion
SpecLM == InitLM /\ [][NextLM]_vars

\* A generation session preparing the arguments of its next step
InitGen ==
    /\ Constructed
    /\ config.fuse_norm /\ config.use_cache /\ ~config.output_attentions
    /\ ~config.fuse_cross_entropy
    /\ kernel = [norm |-> BF16, inner |-> BF16]
NextGen ==
    \/ PrepareInputsCall
    \/ Consume
SpecGen == InitGen /\ [][NextGen]_vars

---------------------------------------------------------------------------
(* Properties *)

\* a forward call has returned or raised
ForwardDone == pc = "done" /\ call.op \in {"stack", "lm"}
StackDone == pc = "done" /\ call.op = "stack"
LMDone == pc = "done" /\ call.op = "lm"

\* what LaCTModel.forward produced in that call
StackResult == IF call.op = "lm" THEN out.stack ELSE out

BothInputs == ~IsNone(call.args.input_ids) /\ ~IsNone(call.args.inputs_embeds)
NoInput == IsNone(call.args.input_ids) /\ IsNone(call.args.inputs_embeds)

\* C1: LaCTModel.forward given both input_ids and inputs_embeds, or neither,
\* raises ValueError before any embedding lookup or Block runs and produces
\* no record; given exactly one of them it never raises ValueError.
C1_InputContract ==
    ForwardDone =>
        /\ (BothInputs \/ NoInput) =>
              /\ StackResult.status = "ValueError"
              /\ StackResult.embedding_lookups = 0
              /\ StackResult.blocks = <<>>
              /\ IsNone(StackResult.record)
              /\ IsNone(out.record)
        /\ ~(BothInputs \/ NoInput) => StackResult.status # "ValueError"

C1_Witness ==
    /\ StackDone
    /\ BothInputs
    /\ out.status = "ValueError"

\* the call asked for decode-state caching while recompute is on in training
CacheAndRecompute ==
    /\ StackDone
    /\ ~(BothInputs \/ NoInput)
    /\ call.args.use_cache = Some(TRUE)
    /\ gradient_checkpointing /\ training

\* C2 as stated: with use_cache=True and recompute enabled in training the
\* call succeeds, caching wins: the Blocks run with use_cache=True outside
\* the recompute wrapper and the record equals that of the same call with
\* recompute disabled.
C2_CachingTakesPrecedence ==
    CacheAndRecompute =>
        /\ out.status = "ok"
        /\ \A i \in 1..Len(out.blocks) : out.blocks[i].use_cache /\ ~out.blocks[i].wrapped
        /\ out.record =
              StackForward([Self EXCEPT !.gradient_checkpointing = FALSE], call.args).record

\* C2 as amended: the call succeeds with a warning, recompute wins: every
\* Block runs through the recompute wrapper with use_cache=False, the record
\* carries no decode state, and the record equals that of the same call made
\* with use_cache=False on the same (converted) decode-state collection.
C2_RecomputeTakesPrecedence ==
    CacheAndRecompute =>
        /\ out.status = "ok"
        /\ "use_cache" \in out.warnings
        /\ Len(out.blocks) = NumHiddenLayers
        /\ \A i \in 1..Len(out.blocks) : ~out.blocks[i].use_cache /\ out.blocks[i].wrapped
        /\ IsNone(Get(out.record).past_key_values)
        /\ out.record =
              StackForward(Self,
                  [call.args EXCEPT !.use_cache = Some(FALSE),
                                    !.past_key_values = ConvertCache(TRUE, @)]).record

C2_Witness ==
    /\ CacheAndRecompute
    /\ out.status = "ok"
    /\ IsNone(call.args.past_key_values)
    /\ Len(out.blocks) = NumHiddenLayers

\* use_cache as the Blocks of the call are to see it, from the arguments
\* and the model's flags
CachingInEffect ==
    /\ call.op = "stack"
    /\ OrDefault(call.args.use_cache, ~training /\ config.use_cache)
    /\ ~(gradient_checkpointing /\ training)

\* the collection holds exactly one state per layer, in layer order
OnePerLayer(cache) ==
    /\ CacheLen(cache) = NumHiddenLayers
    /\ \A i \in 1..NumHiddenLayers : cache.states[i].layer_idx = i - 1

Shifted == Get(out.loss_call).labels
CriterionCalled == LMDone /\ ~IsNone(out.loss_call)
Sentinel == IF IsNone(criterion) THEN IgnoreIndex ELSE Get(criterion).ignore_index

\* C4: the labels handed to the criterion are the original labels shifted
\* left by one, with the criterion's ignore sentinel in the last position.
C4_LabelShift ==
    CriterionCalled =>
        LET original == Get(call.args.labels)
            L == Len(original)
        IN  L >= 1 =>
              /\ Len(Shifted) = L
              /\ \A i \in 1..(L - 1) : Shifted[i] = original[i + 1]
              /\ Shifted[L] = Sentinel

C4_Witness ==
    /\ CriterionCalled
    /\ Len(Get(call.args.labels)) >= 2
    /\ Get(call.args.labels)[1] # Sentinel
    /\ Get(call.args.labels)[1] # Get(call.args.labels)[2]
    /\ Shifted[Len(Shifted)] = Sentinel

LinearFused == config.fuse_cross_entropy /\ training

\* C5: with labels and fuse_cross_entropy, exactly one of "logits were
\* materialized / are in the record" and "the criterion was called in the
\* linear-fused form" holds; the record has no logits iff fuse_cross_entropy
\* and training, and then lm_head is never applied.
C5_LogitsOrLinearFused ==
    LMDone =>
        /\ (CriterionCalled /\ config.fuse_cross_entropy) =>
              ((out.lm_head_calls = 1) # (Get(out.loss_call).form = LinearForm))
        /\ (out.status = "ok" /\ ~IsNone(call.args.labels) /\ config.fuse_cross_entropy) =>
              ((~IsNone(Get(out.record).logits)) # (Get(out.loss_call).form = LinearForm))
        /\ out.status = "ok" => (IsNone(Get(out.record).logits) <=> LinearFused)
        /\ LinearFused => out.lm_head_calls = 0

C5_Witness ==
    /\ LMDone /\ out.status = "ok"
    /\ ~IsNone(call.args.labels)
    /\ LinearFused
    /\ IsNone(Get(out.record).logits)
    /\ Get(out.loss_call).form = LinearForm

\* C6: outside linear-fused mode the logits cover the trailing
\* logits_to_keep positions of the hidden states, all of them for 0.
C6_LogitsToKeep ==
    (LMDone /\ out.status = "ok" /\ ~LinearFused) =>
        LET h == Get(out.stack.record).last_hidden_state.vals
            L == Len(h)
            k == call.args.logits_to_keep
            logits == Get(Get(out.record).logits).vals
        IN  /\ (1 <= k /\ k <= L) =>
                  /\ Len(logits) = k
                  /\ \A j \in 1..k : logits[j] = LmHeadRow(h[L - k + j])
            /\ k = 0 =>
                  /\ Len(logits) = L
                  /\ \A j \in 1..L : logits[j] = LmHeadRow(h[j])

C6_Witness ==
    /\ LMDone /\ out.status = "ok" /\ ~LinearFused
    /\ call.args.logits_to_keep = 1
    /\ Len(Get(out.stack.record).last_hidden_state.vals) = 2
    /\ Get(out.stack.record).last_hidden_state.vals[1]
          # Get(out.stack.record).last_hidden_state.vals[2]
    /\ Len(Get(Get(out.record).logits).vals) = 1

\* C7: prepare_inputs_for_generation, called with input_ids, returns
\* normally and the arguments it returns hold exactly one of input_ids and
\* inputs_embeds, not None.
C7_PrepareNeverEmpty ==
    (pc = "done" /\ call.op = "prepare" /\ ~IsNone(call.args.input_ids)) =>
        /\ out.status = "ok"
        /\ LET m == Get(out.model_inputs)
           IN  /\ ("input_ids" \in m.keys) # ("inputs_embeds" \in m.keys)
               /\ "input_ids" \in m.keys => ~IsNone(m.input_ids)
               /\ "inputs_embeds" \in m.keys => ~IsNone(m.inputs_embeds)

\* C8: the record of LaCTModel.forward never carries attentions and every
\* Block is called with output_attentions=False.
C8_AttentionsAlwaysAbsent ==
    (StackDone /\ out.status = "ok") =>
        /\ IsNone(Get(out.record).attentions)
        /\ \A i \in 1..Len(out.blocks) : ~out.blocks[i].output_attentions

\* C9: the hidden states are bfloat16 at every Block entry and exit, after
\* every Block in the loop, in every recorded snapshot and in the final
\* hidden states.
C9_NumericFormat ==
    (ForwardDone /\ StackResult.status = "ok") =>
        LET r == Get(StackResult.record)
        IN  /\ Len(StackResult.blocks) = NumHiddenLayers
            /\ \A i \in 1..Len(StackResult.blocks) :
                  /\ StackResult.blocks[i].norm_in = BF16
                  /\ StackResult.blocks[i].exit = BF16
            /\ \A i \in 1..Len(StackResult.after_block) : StackResult.after_block[i] = BF16
            /\ r.last_hidden_state.fmt = BF16
            /\ ~IsNone(r.hidden_states) =>
                  /\ Len(Get(r.hidden_states)) = NumHiddenLayers + 1
                  /\ \A i \in 1..Len(Get(r.hidden_states)) : Get(r.hidden_states)[i].fmt = BF16

C9_Witness ==
    /\ StackDone /\ out.status = "ok"
    /\ kernel = [norm |-> FP32, inner |-> FP32]
    /\ ~IsNone(call.args.inputs_embeds)
    /\ Get(call.args.inputs_embeds).fmt = FP32
    /\ ~IsNone(Get(out.record).hidden_states)
    /\ Get(out.record).last_hidden_state.fmt = BF16

\* C10: whenever the criterion is called, the call form and the criterion
\* follow config.fuse_cross_entropy and the training flag alone, and the
\* criterion takes the argument list it is called with.
C10_CriterionMatchesStrategy ==
    CriterionCalled =>
        LET lc == Get(out.loss_call)
        IN  /\ (lc.form = LinearForm) <=> LinearFused
            /\ (lc.criterion = FusedLinearCrossEntropyLoss) <=> LinearFused
            /\ (lc.criterion = FusedCrossEntropyLoss) <=>
                  (config.fuse_cross_entropy /\ ~training)
            /\ (lc.criterion = CrossEntropyLoss) <=> ~config.fuse_cross_entropy
            /\ AcceptedForm(lc.criterion) = lc.form

\* labels were supplied to a CausalLMHead call outside linear-fused mode
\* whose Stack call returned, with 0 <= logits_to_keep <= L
LabelsOnKeptLogits ==
    /\ LMDone /\ out.stack.status = "ok"
    /\ ~IsNone(call.args.labels)
    /\ ~LinearFused
    /\ call.args.logits_to_keep >= 0
    /\ call.args.logits_to_keep <= Len(Get(call.args.labels))

\* C11: whenever labels are supplied outside linear-fused mode, for every
\* logits_to_keep in 0..L the view of the logits never fails on a shape
\* mismatch and the criterion receives one logits row of width VocabSize per
\* shifted label, L rows in all: the kept logits are never regrouped into
\* rows of another width.
C11_OneRowPerLabel ==
    LabelsOnKeptLogits =>
        /\ out.status # "RuntimeError"
        /\ ~IsNone(out.loss_call)
        /\ Get(out.loss_call).rows = Len(Get(call.args.labels))
        /\ Get(out.loss_call).width = VocabSize

====
